---- MODULE Spec2Model ----
(***************************************************************************)
(* dbastion: the policy pipeline (run_policy and the functions it calls)   *)
(* and the validate / query / exec command handlers that drive it.         *)
(*                                                                         *)
(* A SQL text is modelled by what sqlglot makes of it: either the          *)
(* tokenizer rejects it, or the parser rejects it, or it splits at its     *)
(* semicolons into chunks, each chunk empty or one statement.  A statement *)
(* is modelled by the facts about its syntax tree that the policy code     *)
(* inspects: the class of the root node, the bodies of the CTEs found      *)
(* anywhere in the tree, where WHERE / INTO / LIMIT / GROUP BY nodes occur *)
(* (on the root itself, or only in a nested query), and the names of the   *)
(* functions called.                                                       *)
(***************************************************************************)
EXTENDS Integers, Sequences, FiniteSets, TLC

VARIABLES
    cmd,            \* what is invoked: run_policy itself, or a command
    sql,            \* the SQL text
    allow_write,    \* run_policy argument / --allow-write
    limit,          \* run_policy argument; for a command: Some(--limit n),
                    \* or None for --no-limit
    db,             \* --db: the engine it resolves to, or "nowhere"
    output_format,  \* --format
    dry_run_only,   \* --dry-run
    skip_dry_run,   \* --skip-dry-run
    max_gb,         \* --max-gb, None when absent
    max_usd,        \* --max-usd, None when absent
    max_rows,       \* --max-rows, None when absent
    fixes,          \* apply_fixes argument: the suggestion parts of the
                    \* diagnostics, in order
    fs,             \* the project's log directory: whether it exists, and
                    \* the files in it
    procs,          \* the processes calling log_query / cleanup_old_logs:
                    \* where each one is
    adapter,        \* an adapter instance and the driver handles it opened
    pc,             \* position of the invocation
    statement,      \* run_policy local (policy/__init__.py:62), None before step 2
    stmt_type,      \* run_policy local (policy/__init__.py:76), None before step 3
    result,         \* Some(the DiagnosticResult returned), None before the return
    estimate,       \* local of _run_query / _run_exec: None or Some(estimate)
    calls,          \* the adapter operations called so far, in order
    out,            \* the documents written to stdout / stderr, in order
    log,            \* the entries log_query appended, in order
    exit_code,      \* None while running, Some(process exit code) after
    escaped         \* None, or Some(exception that left the command uncaught)

policy_vars == <<sql, allow_write, limit, pc, statement, stmt_type, result>>
option_vars == <<cmd, db, output_format, dry_run_only, skip_dry_run,
                 max_gb, max_usd, max_rows, fixes, fs, procs, adapter>>
cli_vars == <<estimate, calls, out, log, exit_code, escaped>>
vars == <<policy_vars, option_vars, cli_vars>>

(***************************************************************************)
(* Bounds of the model.                                                    *)
(***************************************************************************)
MaxCtes == 2      \* CTE bodies of distinct kinds in one statement
MaxFuncs == 1     \* distinct function names called in one statement
MaxChunks == 2    \* semicolon-separated chunks of a multi-chunk text
MaxLimit == 1     \* largest auto-LIMIT value tried
MaxCost == 2      \* largest figure of a cost estimate
MaxParts == 2     \* suggestion parts in one batch given to apply_fixes
MaxWriters == 2   \* processes calling log_query at the same time
MaxAdapterCalls == 4  \* connect / close calls made on one adapter instance
MaxRefs == 2      \* table references inside the queries of one statement

\* The value a cost threshold is set to when it is set (between the figures
\* an estimate can carry).
Threshold == 1

\* Optional values: None is the empty sequence, Some(x) holds x.
None == <<>>
Some(x) == <<x>>

(***************************************************************************)
(* diagnostics/types.py: Level, Diagnostic, DiagnosticResult               *)
(***************************************************************************)
INFO == 0
WARNING == 1
ERROR == 2

\* diagnostics/codes.py
SYNTAX_ERROR == 1
DELETE_WITHOUT_WHERE == 201
MULTIPLE_STATEMENTS == 202
UPDATE_WITHOUT_WHERE == 203
CROSS_JOIN_NO_CONDITION == 204
CONSTANT_CONDITION == 205
WRITE_BLOCKED == 301
DDL_BLOCKED == 302
LIMIT_INJECTED == 601
\* Named by the specification (Q0303) and the tests; codes.py has no such
\* entry.
ADMIN_BLOCKED == 303
\* The access-control band Q03xx of the registry's docstring.
AccessBand == 300..399

\* Diagnostic.error / Diagnostic.info
DiagError(code) == [level |-> ERROR, code |-> code]
DiagInfo(code) == [level |-> INFO, code |-> code]
\* Diagnostic.warning
DiagWarning(code) == [level |-> WARNING, code |-> code]

is_blocking_any(d) == TRUE
\* Diagnostic.is_blocking
is_blocking(d) == d.level = ERROR

\* any(d.is_blocking for d in diagnostics)
AnyBlocking(diagnostics) ==
    \E i \in 1..Len(diagnostics) : is_blocking(diagnostics[i])

(***************************************************************************)
(* policy/classify.py                                                      *)
(***************************************************************************)
READ == "read"
DML == "dml"
DDL == "ddl"
ADMIN == "admin"
UNKNOWN == "unknown"

READ_TYPES == {"Select", "Union", "Intersect", "Except"}
DML_TYPES == {"Insert", "Update", "Delete", "Merge"}
DDL_TYPES == {"Create", "Drop", "Alter", "TruncateTable"}
BLOCKED_TYPES == {"Grant", "Copy", "Command"}
\* Root classes sqlglot produces that are in none of the four tuples:
\* USE db parses to exp.Use, a parenthesised query to exp.Subquery.
OTHER_TYPES == {"Use", "Subquery"}

RootKinds == READ_TYPES \cup DML_TYPES \cup DDL_TYPES \cup BLOCKED_TYPES \cup OTHER_TYPES

(***************************************************************************)
(* The statements of the model.                                            *)
(***************************************************************************)
\* Roots that can enclose a query (and so CTEs, nested clauses, calls).
EnclosingRoots ==
    READ_TYPES \cup DML_TYPES \cup {"Create", "Copy", "Subquery"}

CteBodyKinds == {"Select"} \cup DML_TYPES
FuncNames == {"now", "PG_READ_FILE"}

CtesOf(r) ==
    IF r \in EnclosingRoots
    THEN {c \in SUBSET CteBodyKinds : Cardinality(c) <= MaxCtes}
    ELSE {{}}

FuncsOf(r) ==
    IF r \in EnclosingRoots
    THEN {f \in SUBSET FuncNames : Cardinality(f) <= MaxFuncs}
    ELSE {{}}

\* "root": the root node carries the clause itself (a nested one may exist
\* too); "nested": the clause occurs only below the root, in a subquery, a
\* CTE body or an operand of a set operation; "none": nowhere in the tree.
WhereOf(r) ==
    IF r \in {"Select", "Update", "Delete"} THEN {"none", "root", "nested"}
    ELSE IF r \in EnclosingRoots THEN {"none", "nested"}
    ELSE {"none"}

IntoOf(r) ==
    IF r = "Select" THEN {"none", "root", "nested"}
    ELSE IF r \in READ_TYPES \cup {"Copy"} THEN {"none", "nested"}
    ELSE {"none"}

LimitOf(r) ==
    IF r \in READ_TYPES THEN {"none", "root", "nested"}
    ELSE {"none"}

GroupOf(r) ==
    IF r = "Select" THEN {"none", "root", "nested"}
    ELSE IF r \in READ_TYPES THEN {"none", "nested"}
    ELSE {"none"}

StatementsOf(r) ==
    { [root |-> r, ctes |-> c, where |-> w, into |-> i, limit |-> l,
       group |-> g, funcs |-> f, joins |-> "none", cond |-> "other"] :
         c \in CtesOf(r), w \in WhereOf(r), i \in IntoOf(r),
         l \in LimitOf(r), g \in GroupOf(r), f \in FuncsOf(r) }

Statements == UNION {StatementsOf(r) : r \in RootKinds}

\* An empty chunk: sqlglot.parse yields None for it.
NoStatement ==
    [root |-> "None", ctes |-> {}, where |-> "none", into |-> "none",
     limit |-> "none", group |-> "none", funcs |-> {}, joins |-> "none",
     cond |-> "other"]

Plain(r) ==
    [root |-> r, ctes |-> {}, where |-> "none", into |-> "none",
     limit |-> "none", group |-> "none", funcs |-> {}, joins |-> "none",
     cond |-> "other"]

\* The chunks multi-chunk texts are built from:
\* "", "SELECT 1", "DROP TABLE x", "DELETE FROM t".
SampleChunks == {NoStatement, Plain("Select"), Plain("Drop"), Plain("Delete")}

SeqsUpTo(S, n) == UNION {[1..k -> S] : k \in 0..n}

\* A text sqlglot tokenizes and parses: its chunks in order.
OkText(chunks) == [kind |-> "ok", chunks |-> chunks]
\* A text the tokenizer rejects (unclosed string or comment): TokenError.
TokenErrorText == [kind |-> "token_error", chunks |-> <<>>]
\* A text the parser rejects (SELECT FROM): ParseError.
ParseErrorText == [kind |-> "parse_error", chunks |-> <<>>]

SqlTexts ==
    {OkText(<<s>>) : s \in Statements}
    \cup {OkText(c) : c \in SeqsUpTo(SampleChunks, MaxChunks)}
    \cup {TokenErrorText, ParseErrorText}

Limits == {None} \cup {Some(n) : n \in 0..MaxLimit}

(***************************************************************************)
(* sqlglot as the policy code calls it                                     *)
(***************************************************************************)
\* sqlglot.parse(sql): one entry per chunk, None (NoStatement) for an empty
\* chunk; raises TokenError or ParseError (both SqlglotError) on a bad text.
parse(text) ==
    IF text.kind = "ok"
    THEN [raised |-> "none", statements |-> text.chunks]
    ELSE [raised |-> IF text.kind = "token_error" THEN "TokenError" ELSE "ParseError",
          statements |-> <<>>]

\* sqlglot.parse_one(sql): the first entry of parse(sql); ParseError when
\* there is none or it is None (an empty first chunk).
parse_one(text) ==
    LET p == parse(text) IN
    IF p.raised # "none" THEN [raised |-> p.raised, statement |-> NoStatement]
    ELSE IF p.statements = <<>> \/ p.statements[1] = NoStatement
         THEN [raised |-> "ParseError", statement |-> NoStatement]
         ELSE [raised |-> "none", statement |-> p.statements[1]]

\* statement.sql(dialect=dialect): the text of one statement.
RenderSql(stmt) == OkText(<<stmt>>)

(***************************************************************************)
(* policy/safety.py                                                        *)
(***************************************************************************)
NonEmpty(statements) == SelectSeq(statements, LAMBDA s : s # NoStatement)

check_multiple_statements_unfiltered(text) ==
    LET p == parse(text) IN
    IF p.raised # "none" THEN <<>>
    ELSE IF Len(p.statements) <= 1 THEN <<>>
    ELSE <<DiagError(MULTIPLE_STATEMENTS)>>

\* A check returns a sequence: <<>> for None, <<d>> for a diagnostic d.
check_multiple_statements(text) ==
    LET p == parse(text) IN
    IF p.raised # "none" THEN <<>>
    ELSE IF Len(NonEmpty(p.statements)) <= 1 THEN <<>>
    ELSE <<DiagError(MULTIPLE_STATEMENTS)>>

\* statement.find(exp.Where): a Where node anywhere in the tree.
FindWhere(stmt) == stmt.where # "none"

check_delete_without_where(stmt) ==
    IF stmt.root # "Delete" THEN <<>>
    ELSE IF FindWhere(stmt) THEN <<>>
    ELSE <<DiagError(DELETE_WITHOUT_WHERE)>>

check_update_without_where(stmt) ==
    IF stmt.root # "Update" THEN <<>>
    ELSE IF FindWhere(stmt) THEN <<>>
    ELSE <<DiagError(UPDATE_WITHOUT_WHERE)>>

\* check_cross_join_no_condition: some select of the tree has a join that is
\* an explicit CROSS JOIN, or has no ON/USING and is not NATURAL, and whose
\* WHERE holds no comparison linking the two relations (joins = "cross").
\* A join with a condition, or linked by the WHERE, is joins = "on".
check_cross_join_no_condition(stmt) ==
    IF stmt.joins = "cross" THEN <<DiagWarning(CROSS_JOIN_NO_CONDITION)>>
    ELSE <<>>

\* check_constant_condition: the condition of the Where that
\* statement.find(exp.Where) returns holds TRUE or an equality of two equal
\* literals (cond = "constant").
check_constant_condition(stmt) ==
    IF ~FindWhere(stmt) THEN <<>>
    ELSE IF stmt.cond = "constant" THEN <<DiagWarning(CONSTANT_CONDITION)>>
    ELSE <<>>

\* name.lower() of the names of the model
Lower(name) == IF name = "PG_READ_FILE" THEN "pg_read_file" ELSE name

\* check_dangerous_functions: defined in safety.py, called by no code.
check_dangerous_functions(stmt, blocked_functions) ==
    IF blocked_functions = {} THEN FALSE
    ELSE \E name \in stmt.funcs : Lower(name) \in blocked_functions

(***************************************************************************)
(* policy/classify.py                                                      *)
(***************************************************************************)
has_dml_in_cte_all(stmt) ==
    /\ stmt.ctes # {}
    /\ \A body \in stmt.ctes : body \in DML_TYPES

\* _has_dml_in_cte: statement.find_all(exp.CTE) walks the whole tree.
has_dml_in_cte(stmt) ==
    \E body \in stmt.ctes : body \in DML_TYPES

has_into_on_root(stmt) ==
    stmt.root = "Select" /\ stmt.into = "root"

\* _has_into: statement.find(exp.Into) walks the whole tree.
has_into(stmt) ==
    stmt.root = "Select" /\ stmt.into # "none"

classify(stmt) ==
    IF stmt.root \in BLOCKED_TYPES THEN ADMIN
    ELSE IF stmt.root \in READ_TYPES THEN
        IF has_dml_in_cte(stmt) THEN DML
        ELSE IF has_into(stmt) THEN DDL
        ELSE READ
    ELSE IF stmt.root \in DML_TYPES THEN DML
    ELSE IF stmt.root \in DDL_TYPES THEN DDL
    ELSE UNKNOWN

(***************************************************************************)
(* policy/enrich.py                                                        *)
(***************************************************************************)
inject_limit_unconditional(stmt, n) ==
    IF stmt.root # "Select" THEN [statement |-> stmt, diag |-> <<>>]
    ELSE IF stmt.group # "none" THEN [statement |-> stmt, diag |-> <<>>]
    ELSE [statement |-> [stmt EXCEPT !.limit = "root"],
          diag |-> <<DiagInfo(LIMIT_INJECTED)>>]

\* inject_limit: the (possibly modified) statement and <<>> or <<diag>>.
inject_limit(stmt, n) ==
    IF stmt.root # "Select" THEN [statement |-> stmt, diag |-> <<>>]
    ELSE IF stmt.limit # "none" THEN [statement |-> stmt, diag |-> <<>>]
    ELSE IF stmt.group # "none" THEN [statement |-> stmt, diag |-> <<>>]
    ELSE [statement |-> [stmt EXCEPT !.limit = "root"],
          diag |-> <<DiagInfo(LIMIT_INJECTED)>>]

(***************************************************************************)
(* policy/__init__.py: run_policy                                          *)
(***************************************************************************)
\* DiagnosticResult(...): run_policy passes no classification, so the field
\* keeps its default None (diagnostics/types.py:153), and the two early
\* returns pass no tables.
DiagnosticResult(original_sql, healed_sql, diagnostics, blocked) ==
    [original_sql |-> original_sql, healed_sql |-> healed_sql,
     diagnostics |-> diagnostics, blocked |-> blocked,
     classification |-> None]

\* DiagnosticResult.effective_sql
effective_sql(r) ==
    IF r.healed_sql # None THEN r.healed_sql[1] ELSE r.original_sql

access_control_always(type, allow) ==
    IF type = DML THEN <<DiagError(WRITE_BLOCKED)>>
    ELSE IF type = DDL THEN <<DiagError(DDL_BLOCKED)>>
    ELSE <<>>

\* Step 4: access control
access_control(type, allow) ==
    IF type = DML /\ ~allow THEN <<DiagError(WRITE_BLOCKED)>>
    ELSE IF type = DDL /\ ~allow THEN <<DiagError(DDL_BLOCKED)>>
    ELSE <<>>

\* Step 5: safety checks
safety_checks(stmt) ==
    check_delete_without_where(stmt) \o check_update_without_where(stmt)

\* What a call of run_policy does: raises, or returns a DiagnosticResult.
\* statement and stmt_type are the locals of those names, None on the paths
\* that return or raise before they are assigned.
Returned(stmt, type, r) ==
    [raised |-> "none", statement |-> stmt, stmt_type |-> type, result |-> Some(r)]
Raised(exception) ==
    [raised |-> exception, statement |-> None, stmt_type |-> None, result |-> None]

run_policy(text, allow, lim) ==
    LET multi_diag == check_multiple_statements(text) IN
    IF multi_diag # <<>>
    THEN Returned(None, None, DiagnosticResult(text, None, multi_diag, TRUE))
    ELSE
    LET parsed == parse_one(text) IN
    IF parsed.raised = "ParseError"
    THEN Returned(None, None,
                  DiagnosticResult(text, None, <<DiagError(SYNTAX_ERROR)>>, TRUE))
    ELSE IF parsed.raised # "none"
    THEN Raised(parsed.raised)   \* only ParseError is caught
    ELSE
    LET stmt == parsed.statement
        type == classify(stmt)
        diags5 == access_control(type, allow) \o safety_checks(stmt)
        enrich ==
            IF ~AnyBlocking(diags5) /\ type = READ /\ lim # None
            THEN inject_limit(stmt, lim[1])
            ELSE [statement |-> stmt, diag |-> <<>>]
        diagnostics == diags5 \o enrich.diag
        healed_sql ==
            IF enrich.diag # <<>> THEN Some(RenderSql(enrich.statement)) ELSE None
    IN  Returned(Some(stmt), Some(type),
                 DiagnosticResult(text, healed_sql, diagnostics,
                                  AnyBlocking(diagnostics)))

(***************************************************************************)
(* Spec: run_policy applied to every text and option of the model.         *)
(***************************************************************************)
Init ==
    /\ sql \in SqlTexts
    /\ allow_write \in BOOLEAN
    /\ limit \in Limits
    /\ pc = "ready"
    /\ statement = None
    /\ stmt_type = None
    /\ result = None
    /\ cmd = "run_policy"
    /\ db = "duckdb"
    /\ output_format = "json"
    /\ dry_run_only = FALSE
    /\ skip_dry_run = FALSE
    /\ max_gb = None
    /\ max_usd = None
    /\ max_rows = None
    /\ fixes = <<>>
    /\ fs = None
    /\ procs = <<>>
    /\ adapter = None
    /\ estimate = None
    /\ calls = <<>>
    /\ out = <<>>
    /\ log = <<>>
    /\ exit_code = None
    /\ escaped = None

CallRunPolicy ==
    /\ pc = "ready"
    /\ LET r == run_policy(sql, allow_write, limit) IN
        /\ pc' = IF r.raised = "none" THEN "returned" ELSE "raised"
        /\ statement' = r.statement
        /\ stmt_type' = r.stmt_type
        /\ result' = r.result
    /\ UNCHANGED <<sql, allow_write, limit, option_vars, cli_vars>>

Next == CallRunPolicy

Spec == Init /\ [][Next]_vars

(***************************************************************************)
(* SpecChecks: run_policy applied to single statements with joins and      *)
(* constant conditions.                                                    *)
(***************************************************************************)
JoinsOf(r) == IF r = "Select" THEN {"none", "on", "cross"} ELSE {"none"}

CondOf(w) == IF w = "none" THEN {"other"} ELSE {"other", "constant"}

\* SELECT / UPDATE / DELETE with and without a WHERE, the WHERE constant
\* (WHERE 1=1, WHERE TRUE) or not, a select with a cross join or a join with
\* a condition.
CheckStatements ==
    { s \in { [Plain(r) EXCEPT !.where = w, !.joins = j, !.cond = c] :
                r \in {"Select", "Update", "Delete"},
                w \in {"none", "root", "nested"},
                j \in {"none", "on", "cross"},
                c \in {"other", "constant"} } :
        s.joins \in JoinsOf(s.root) /\ s.cond \in CondOf(s.where) }

InitChecks ==
    /\ sql \in {OkText(<<s>>) : s \in CheckStatements}
    /\ allow_write \in BOOLEAN
    /\ limit \in Limits
    /\ pc = "ready"
    /\ statement = None
    /\ stmt_type = None
    /\ result = None
    /\ cmd = "run_policy"
    /\ db = "duckdb"
    /\ output_format = "json"
    /\ dry_run_only = FALSE
    /\ skip_dry_run = FALSE
    /\ max_gb = None
    /\ max_usd = None
    /\ max_rows = None
    /\ fixes = <<>>
    /\ fs = None
    /\ procs = <<>>
    /\ adapter = None
    /\ estimate = None
    /\ calls = <<>>
    /\ out = <<>>
    /\ log = <<>>
    /\ exit_code = None
    /\ escaped = None

NextChecks == CallRunPolicy

SpecChecks == InitChecks /\ [][NextChecks]_vars

(***************************************************************************)
(* adapters: the engines, their blocklists and what dry_run reports        *)
(***************************************************************************)
\* --db values: two engines, and a value parse_db rejects.
Engines == {"postgres", "duckdb"}
Dbs == Engines \cup {"nowhere"}

\* Adapter.dangerous_functions() (some of the names of the postgres list)
dangerous_functions(engine) ==
    IF engine = "postgres" THEN {"pg_read_file", "pg_terminate_backend"}
    ELSE {}

\* A CostEstimate, by the fields the cost gate reads; each None or a number.
CostEstimate(gb, usd, rows) ==
    [estimated_gb |-> gb, estimated_cost_usd |-> usd, estimated_rows |-> rows]

CostValues == {None} \cup {Some(n) : n \in 0..MaxCost}

\* What an adapter's dry_run reports: bytes and cost (BigQuery), rows
\* (PostgreSQL), or a plan with no figures (DuckDB).
Estimates ==
    {CostEstimate(g, u, None) : g \in CostValues \ {None}, u \in CostValues}
    \cup {CostEstimate(None, None, r) : r \in CostValues}

Thresholds == {None, Some(Threshold)}

(***************************************************************************)
(* adapters/cost.py                                                        *)
(***************************************************************************)
COST_OVER_THRESHOLD == 401

\* check_cost_threshold(estimate, max_gb=, max_usd=, max_rows=): <<>> for
\* None, <<diag>> for a diagnostic; about says which message the diagnostic
\* carries ("query would scan ... GB", "query cost $...", "query estimates
\* ~... rows").  est is None or Some(estimate); reading a field of None
\* raises AttributeError, which happens at the first condition whose
\* threshold is set.
CostResult(raised, diag, about) ==
    [raised |-> raised, diag |-> diag, about |-> about]

check_cost_threshold_usd_first(est, gb, usd, rows) ==
    LET e == est[1] IN
    IF usd # None /\ e.estimated_cost_usd # None
       /\ e.estimated_cost_usd[1] > usd[1]
    THEN CostResult("none", <<DiagError(COST_OVER_THRESHOLD)>>, "usd")
    ELSE IF gb # None /\ e.estimated_gb # None /\ e.estimated_gb[1] > gb[1]
    THEN CostResult("none", <<DiagError(COST_OVER_THRESHOLD)>>, "gb")
    ELSE IF rows # None /\ e.estimated_rows # None
            /\ e.estimated_rows[1] > rows[1]
    THEN CostResult("none", <<DiagError(COST_OVER_THRESHOLD)>>, "rows")
    ELSE CostResult("none", <<>>, "none")

check_cost_threshold(est, gb, usd, rows) ==
    IF est = None
    THEN CostResult(IF gb # None \/ usd # None \/ rows # None
                    THEN "AttributeError" ELSE "none", <<>>, "none")
    ELSE
    LET e == est[1] IN
    IF gb # None /\ e.estimated_gb # None /\ e.estimated_gb[1] > gb[1]
    THEN CostResult("none", <<DiagError(COST_OVER_THRESHOLD)>>, "gb")
    ELSE IF usd # None /\ e.estimated_cost_usd # None
            /\ e.estimated_cost_usd[1] > usd[1]
    THEN CostResult("none", <<DiagError(COST_OVER_THRESHOLD)>>, "usd")
    ELSE IF rows # None /\ e.estimated_rows # None
            /\ e.estimated_rows[1] > rows[1]
    THEN CostResult("none", <<DiagError(COST_OVER_THRESHOLD)>>, "rows")
    ELSE CostResult("none", <<>>, "none")

(***************************************************************************)
(* SpecCost: check_cost_threshold applied to every estimate and thresholds *)
(***************************************************************************)
AllEstimates ==
    {CostEstimate(g, u, r) : g \in CostValues, u \in CostValues, r \in CostValues}

InitCost ==
    /\ cmd = "check_cost_threshold"
    /\ estimate \in {Some(e) : e \in AllEstimates}
    /\ max_gb \in CostValues
    /\ max_usd \in CostValues
    /\ max_rows \in CostValues
    /\ sql = OkText(<<>>)
    /\ allow_write = FALSE
    /\ limit = None
    /\ db = "duckdb"
    /\ output_format = "json"
    /\ dry_run_only = FALSE
    /\ skip_dry_run = FALSE
    /\ fixes = <<>>
    /\ fs = None
    /\ procs = <<>>
    /\ adapter = None
    /\ pc = "ready"
    /\ statement = None
    /\ stmt_type = None
    /\ result = None
    /\ calls = <<>>
    /\ out = <<>>
    /\ log = <<>>
    /\ exit_code = None
    /\ escaped = None

\* result holds Some(what the call returned).
CallCheckCostThreshold ==
    /\ pc = "ready"
    /\ cmd = "check_cost_threshold"
    /\ pc' = "returned"
    /\ result' = Some(check_cost_threshold(estimate, max_gb, max_usd, max_rows))
    /\ UNCHANGED <<sql, allow_write, limit, statement, stmt_type, option_vars,
                   cli_vars>>

NextCost == CallCheckCostThreshold

SpecCost == InitCost /\ [][NextCost]_vars

(***************************************************************************)
(* cli: what the commands write                                            *)
(***************************************************************************)
\* One document written by a command.  decision is Some(d) when the
\* document carries a decision (the "decision" key of a JSON envelope, the
\* "decision:" header of a text), None when it carries none.
Doc(stream, format, decision, kind) ==
    [stream |-> stream, format |-> format, decision |-> decision, kind |-> kind]

\* render_text(result) is the empty string without diagnostics and healed
\* SQL, and then nothing is echoed.
render_text_empty(r) == r.diagnostics = <<>> /\ r.healed_sql = None

\* click.echo(format_result(result, output_format=...)): render_json has no
\* "decision" key.
echo_format_result(r, format) ==
    <<Doc("stdout", format, None, "policy")>>

\* An entry appended by log_query.
LogEntry(blocked, dry_run) == [blocked |-> blocked, dry_run |-> dry_run]

\* effective_limit = None if no_limit else (limit if limit > 0 else None)
effective_limit(lim) ==
    IF lim = None THEN None
    ELSE IF lim[1] > 0 THEN lim ELSE None

\* cli/query.py _emit_output: the JSON envelope is render_json(result) plus
\* estimate / cost_error / rows / dry_run keys, none of them "decision"; the
\* text is whatever of diagnostics, estimate, cost error and rows there is.
query_emit_output(format, r, est, cost_blocked, exec_result, kind) ==
    IF format = "json" THEN <<Doc("stdout", "json", None, kind)>>
    ELSE IF render_text_empty(r) /\ est = None /\ ~cost_blocked /\ ~exec_result
         THEN <<>>
         ELSE <<Doc("stdout", "text", None, kind)>>

\* cli/_shared.py emit_output: the JSON envelope starts as
\* {"decision": decision} and cost_blocked overwrites it with "deny"; the text
\* has a "decision:" header for ask and deny only.
emit_output(format, r, est, cost_blocked, exec_result, decision, kind) ==
    IF format = "json"
    THEN <<Doc("stdout", "json",
               Some(IF cost_blocked THEN "deny" ELSE decision), kind)>>
    ELSE IF decision \in {"ask", "deny"}
         THEN <<Doc("stdout", "text", Some(decision), kind)>>
         ELSE IF render_text_empty(r) /\ est = None /\ ~cost_blocked
                 /\ ~exec_result
              THEN <<>>
              ELSE <<Doc("stdout", "text", None, kind)>>

(***************************************************************************)
(* SpecCli: one invocation of validate, query or exec                      *)
(***************************************************************************)
\* The texts the commands are run on:
\*   SELECT id FROM users                  SELECT id FROM users LIMIT 5
\*   SELECT pg_read_file('/etc/passwd')    DELETE FROM t WHERE id = 1
\*   DELETE FROM t                         CREATE TABLE t (id INT)
\*   UPDATE o SET s = (SELECT s FROM x WHERE x.id = 1)
\*   GRANT SELECT ON t TO r                USE mydb
\*   SELECT 1; DROP TABLE x                SELECT 'abc      SELECT FROM
CliStatements ==
    { Plain("Select"),
      [Plain("Select") EXCEPT !.limit = "root"],
      [Plain("Select") EXCEPT !.funcs = {"PG_READ_FILE"}],
      [Plain("Delete") EXCEPT !.where = "root"],
      Plain("Delete"),
      [Plain("Update") EXCEPT !.where = "nested"],
      Plain("Create"),
      Plain("Grant"),
      Plain("Use") }

CliTexts ==
    {OkText(<<s>>) : s \in CliStatements}
    \cup {OkText(<<Plain("Select"), Plain("Drop")>>), TokenErrorText, ParseErrorText}

InitCli ==
    /\ cmd \in {"validate", "query", "exec"}
    /\ sql \in CliTexts
    /\ output_format \in {"json", "text"}
    /\ limit \in Limits
    /\ IF cmd = "validate"
       THEN /\ limit # None                \* validate has no --no-limit
            /\ allow_write \in BOOLEAN
            /\ db = "duckdb"               \* validate has no --db
            /\ dry_run_only = FALSE
            /\ skip_dry_run = FALSE
            /\ max_gb = None /\ max_usd = None /\ max_rows = None
       ELSE /\ db \in Dbs
            /\ skip_dry_run \in BOOLEAN
            /\ max_gb \in Thresholds
            /\ max_usd \in Thresholds
            /\ max_rows \in Thresholds
            /\ IF cmd = "query"
               THEN allow_write \in BOOLEAN /\ dry_run_only \in BOOLEAN
               \* exec has neither option; allow_write holds what
               \* exec.py:42 passes
               ELSE allow_write = TRUE /\ dry_run_only = FALSE
    /\ fixes = <<>>
    /\ fs = None
    /\ procs = <<>>
    /\ adapter = None
    /\ pc = "ready"
    /\ statement = None
    /\ stmt_type = None
    /\ result = None
    /\ estimate = None
    /\ calls = <<>>
    /\ out = <<>>
    /\ log = <<>>
    /\ exit_code = None
    /\ escaped = None

End_without_finally(code, docs, entries, ops) ==
    /\ pc' = "exited"
    /\ exit_code' = Some(code)
    /\ escaped' = None
    /\ out' = out \o docs
    /\ log' = log \o entries
    /\ calls' = IF code = 0 THEN calls \o ops ELSE calls

\* The command ends with the process exit code `code`, after writing docs,
\* logging entries and calling the adapter operations ops.
End(code, docs, entries, ops) ==
    /\ pc' = "exited"
    /\ exit_code' = Some(code)
    /\ escaped' = None
    /\ out' = out \o docs
    /\ log' = log \o entries
    /\ calls' = calls \o ops

\* An exception no handler of the command catches leaves it: the interpreter
\* prints the traceback and exits with status 1.
Escape(exception, ops) ==
    /\ pc' = "exited"
    /\ exit_code' = Some(1)
    /\ escaped' = Some(exception)
    /\ out' = Append(out, Doc("stderr", "text", None, "traceback"))
    /\ log' = log
    /\ calls' = calls \o ops

\* The awaited adapter operation is cancelled (SIGINT during asyncio.run):
\* CancelledError is raised at the await, the finally clauses on the way out
\* run, and click reports "Aborted!" on stderr and exits with status 1.
Cancelled(ops) ==
    End(1, <<Doc("stderr", "text", None, "aborted")>>, <<>>, ops)

\* The command awaits the adapter operation it has just called.
Await(operation) ==
    /\ pc' = operation
    /\ calls' = Append(calls, operation)
    /\ UNCHANGED <<out, log, exit_code, escaped>>

SetPolicy(r) ==
    /\ statement' = r.statement
    /\ stmt_type' = r.stmt_type
    /\ result' = r.result

\* cli/validate.py: validate
Validate ==
    /\ pc = "ready"
    /\ cmd = "validate"
    /\ LET r == run_policy(sql, allow_write, effective_limit(limit)) IN
        /\ SetPolicy(r)
        /\ IF r.raised # "none"
           THEN Escape(r.raised, <<>>)
           ELSE End(IF r.result[1].blocked THEN 1 ELSE 0,
                    IF output_format = "text" /\ render_text_empty(r.result[1])
                    THEN <<>>
                    ELSE echo_format_result(r.result[1], output_format),
                    <<>>, <<>>)
    /\ UNCHANGED <<sql, allow_write, limit, option_vars, estimate>>

(***************************************************************************)
(* cli/query.py                                                            *)
(***************************************************************************)
\* except AdapterError in query (query.py:308-310): the message goes to
\* stderr in both formats, then SystemExit(1).
query_adapter_error(ops) ==
    End(1, <<Doc("stderr", "text", None, "error")>>, <<>>, ops)

\* query and _run_query up to the first await.  dialect_given: --dialect was
\* passed; driver_installed: the engine's driver package can be imported.
\* binds: run_policy (policy/__init__.py:19-25) declares no
\* dangerous_functions parameter, so the call of query.py:79-82 raises
\* TypeError (binds = FALSE); binds = TRUE follows the call as it runs once
\* the extra argument is accepted and ignored, which is the only way the rest
\* of _run_query is reached.
QueryStart ==
    /\ pc = "ready"
    /\ cmd = "query"
    /\ \E dialect_given \in BOOLEAN, driver_installed \in BOOLEAN, binds \in BOOLEAN :
        IF db = "nowhere"                      \* click.BadParameter
        THEN /\ End(1, <<Doc("stderr", "text", None, "usage")>>, <<>>, <<>>)
             /\ UNCHANGED <<statement, stmt_type, result>>
        ELSE IF ~driver_installed /\ ~dialect_given
        THEN /\ Escape("AdapterError", <<>>)    \* get_adapter at query.py:289
             /\ UNCHANGED <<statement, stmt_type, result>>
        ELSE IF ~driver_installed
        THEN /\ query_adapter_error(<<>>)       \* get_adapter at query.py:77
             /\ UNCHANGED <<statement, stmt_type, result>>
        ELSE IF ~binds
        THEN /\ Escape("TypeError", <<>>)
             /\ UNCHANGED <<statement, stmt_type, result>>
        ELSE
        LET r == run_policy(sql, allow_write, effective_limit(limit)) IN
        /\ SetPolicy(r)
        /\ IF r.raised # "none"
           THEN Escape(r.raised, <<>>)
           ELSE IF r.result[1].blocked
           THEN End(1, echo_format_result(r.result[1], output_format),
                    <<LogEntry(TRUE, TRUE)>>, <<>>)
           ELSE Await("connect")
    /\ UNCHANGED <<sql, allow_write, limit, option_vars, estimate>>

QueryConnect_straight_to_execute ==
    /\ pc = "connect"
    /\ cmd = "query"
    /\ \E connected \in BOOLEAN :
        IF ~connected
        THEN query_adapter_error(<<>>)
        ELSE Await("execute")
    /\ UNCHANGED <<sql, allow_write, limit, statement, stmt_type, result,
                   option_vars, estimate>>

\* adapter.connect returns or raises (query.py:100); then up to the next await.
QueryConnect ==
    /\ pc = "connect"
    /\ cmd = "query"
    /\ \E connected \in BOOLEAN, cancelled \in BOOLEAN :
        IF cancelled
        THEN Cancelled(<<>>)                    \* before the try: no close
        ELSE IF ~connected
        THEN query_adapter_error(<<>>)          \* before the try: no close
        ELSE IF ~skip_dry_run \/ dry_run_only
        THEN Await("dry_run")
        ELSE Await("execute")
    /\ UNCHANGED <<sql, allow_write, limit, statement, stmt_type, result,
                   option_vars, estimate>>

\* adapter.dry_run returns None or an estimate, or raises (query.py:108);
\* then the cost gate and the --dry-run exit, up to the next await.  Every
\* way out of the try runs the finally clause: adapter.close().
QueryDryRun ==
    /\ pc = "dry_run"
    /\ cmd = "query"
    /\ \/ /\ query_adapter_error(<<"close">>)   \* dry_run raised AdapterError
          /\ UNCHANGED estimate
       \/ /\ Cancelled(<<"close">>)             \* cancelled while awaiting dry_run
          /\ UNCHANGED estimate
       \/ \E est \in {None} \cup {Some(e) : e \in Estimates} :
            /\ estimate' = est
            /\ LET cost == check_cost_threshold(est, max_gb, max_usd, max_rows)
                   r == result[1]
               IN  IF cost.raised # "none"
                   THEN Escape(cost.raised, <<"close">>)
                   ELSE IF cost.diag # <<>>
                   THEN End(1, query_emit_output(output_format, r, est, TRUE,
                                                 FALSE, "cost"),
                            <<LogEntry(TRUE, TRUE)>>, <<"close">>)
                   ELSE IF dry_run_only
                   THEN End(0, query_emit_output(output_format, r, est, FALSE,
                                                 FALSE, "dry_run"),
                            <<LogEntry(FALSE, TRUE)>>, <<"close">>)
                   ELSE Await("execute")
    /\ UNCHANGED <<sql, allow_write, limit, statement, stmt_type, result,
                   option_vars>>

\* adapter.execute returns or raises (query.py:156-158); then the output,
\* the log entry and the finally clause.
QueryExecute ==
    /\ pc = "execute"
    /\ cmd = "query"
    /\ \E executed \in BOOLEAN, cancelled \in BOOLEAN :
        IF cancelled
        THEN Cancelled(<<"close">>)
        ELSE IF ~executed
        THEN query_adapter_error(<<"close">>)
        ELSE End(0, query_emit_output(output_format, result[1], estimate, FALSE,
                                      TRUE, "rows"),
                 <<LogEntry(FALSE, FALSE)>>, <<"close">>)
    /\ UNCHANGED <<sql, allow_write, limit, statement, stmt_type, result,
                   option_vars, estimate>>

(***************************************************************************)
(* cli/exec.py                                                             *)
(***************************************************************************)
\* except AdapterError in exec_cmd (exec.py:211-216): a deny envelope on
\* stdout for JSON, the message on stderr for text, then SystemExit(1).
exec_adapter_error(ops) ==
    End(1,
        IF output_format = "json"
        THEN <<Doc("stdout", "json", Some("deny"), "error")>>
        ELSE <<Doc("stderr", "text", None, "error")>>,
        <<>>, ops)

\* exec_cmd and _run_exec up to the first await; dialect_given,
\* driver_installed and binds as in QueryStart (the call is exec.py:41-44).
\* The read check of exec.py:47 compares result.classification, which
\* run_policy leaves None.
ExecStart ==
    /\ pc = "ready"
    /\ cmd = "exec"
    /\ \E dialect_given \in BOOLEAN, driver_installed \in BOOLEAN, binds \in BOOLEAN :
        IF db = "nowhere"                      \* click.BadParameter
        THEN /\ End(1, <<Doc("stderr", "text", None, "usage")>>, <<>>, <<>>)
             /\ UNCHANGED <<statement, stmt_type, result>>
        ELSE IF ~driver_installed
        THEN /\ exec_adapter_error(<<>>)  \* get_adapter at exec.py:195 or 39
             /\ UNCHANGED <<statement, stmt_type, result>>
        ELSE IF ~binds
        THEN /\ Escape("TypeError", <<>>)
             /\ UNCHANGED <<statement, stmt_type, result>>
        ELSE
        LET r == run_policy(sql, TRUE, effective_limit(limit)) IN
        /\ SetPolicy(r)
        /\ IF r.raised # "none"
           THEN Escape(r.raised, <<>>)
           ELSE IF r.result[1].classification = Some(READ)
           THEN End(1,
                    IF output_format = "json"
                    THEN <<Doc("stdout", "json", Some("deny"), "rejected")>>
                    ELSE <<Doc("stderr", "text", None, "rejected")>>,
                    <<>>, <<>>)
           ELSE IF r.result[1].blocked
           THEN End(1,
                    IF output_format = "json"
                    THEN emit_output("json", r.result[1], None, FALSE, FALSE,
                                     "deny", "policy")
                    ELSE echo_format_result(r.result[1], "text"),
                    <<LogEntry(TRUE, TRUE)>>, <<>>)
           ELSE Await("connect")
    /\ UNCHANGED <<sql, allow_write, limit, option_vars, estimate>>

\* adapter.connect returns or raises (exec.py:76); then up to the next await.
ExecConnect ==
    /\ pc = "connect"
    /\ cmd = "exec"
    /\ \E connected \in BOOLEAN, cancelled \in BOOLEAN :
        IF cancelled
        THEN Cancelled(<<>>)                    \* before the try: no close
        ELSE IF ~connected
        THEN exec_adapter_error(<<>>)           \* before the try: no close
        ELSE IF ~skip_dry_run
        THEN Await("dry_run")
        ELSE Await("execute")
    /\ UNCHANGED <<sql, allow_write, limit, statement, stmt_type, result,
                   option_vars, estimate>>

\* The cost gate of exec.py:87-96: the thresholds are checked against an
\* estimate; without one, any threshold set denies.
exec_cost_diag(est) ==
    IF est # None
    THEN check_cost_threshold(est, max_gb, max_usd, max_rows).diag
    ELSE IF max_gb # None \/ max_usd # None \/ max_rows # None
    THEN <<DiagError(COST_OVER_THRESHOLD)>>
    ELSE <<>>

\* adapter.dry_run returns None or an estimate, or raises (exec.py:86); then
\* the cost gate, up to the next await.
ExecDryRun ==
    /\ pc = "dry_run"
    /\ cmd = "exec"
    /\ \/ /\ exec_adapter_error(<<"close">>)    \* dry_run raised AdapterError
          /\ UNCHANGED estimate
       \/ /\ Cancelled(<<"close">>)             \* cancelled while awaiting dry_run
          /\ UNCHANGED estimate
       \/ \E est \in {None} \cup {Some(e) : e \in Estimates} :
            /\ estimate' = est
            /\ IF exec_cost_diag(est) # <<>>
               THEN End(1, emit_output(output_format, result[1], est, TRUE,
                                       FALSE, "deny", "cost"),
                        <<LogEntry(TRUE, TRUE)>>, <<"close">>)
               ELSE Await("execute")
    /\ UNCHANGED <<sql, allow_write, limit, statement, stmt_type, result,
                   option_vars>>

\* adapter.execute returns or raises (exec.py:120-122); then the output, the
\* log entry and the finally clause.
ExecExecute ==
    /\ pc = "execute"
    /\ cmd = "exec"
    /\ \E executed \in BOOLEAN, cancelled \in BOOLEAN :
        IF cancelled
        THEN Cancelled(<<"close">>)
        ELSE IF ~executed
        THEN exec_adapter_error(<<"close">>)
        ELSE End(0, emit_output(output_format, result[1], estimate, FALSE,
                                TRUE, "allow", "rows"),
                 <<LogEntry(FALSE, FALSE)>>, <<"close">>)
    /\ UNCHANGED <<sql, allow_write, limit, statement, stmt_type, result,
                   option_vars, estimate>>

NextCli ==
    \/ Validate
    \/ QueryStart
    \/ QueryConnect
    \/ QueryDryRun
    \/ QueryExecute
    \/ ExecStart
    \/ ExecConnect
    \/ ExecDryRun
    \/ ExecExecute

SpecCli == InitCli /\ [][NextCli]_vars

(***************************************************************************)
(* diagnostics/types.py: apply_fixes                                       *)
(***************************************************************************)
\* A SQL string is a sequence of characters; offsets count from 0 and a Span
\* is the half-open interval [start, end).
Span(start, end) == [start |-> start, end |-> end]

MACHINE_APPLICABLE == "machine_applicable"
MAYBE_INCORRECT == "maybe_incorrect"
HAS_PLACEHOLDERS == "has_placeholders"

\* A SubstitutionPart, with the applicability of the Suggestion it is in.
SubstitutionPart(span, replacement, applicability) ==
    [span |-> span, replacement |-> replacement, applicability |-> applicability]

Min(a, b) == IF a <= b THEN a ELSE b

\* text[from:to] of Python, for offsets that are not negative.
Slice(text, from, to) == SubSeq(text, Min(from, Len(text)) + 1, Min(to, Len(text)))

\* d.auto_fixable_suggestions() for d in diagnostics, part by part
auto_fixable_suggestions(parts) ==
    SelectSeq(parts, LAMBDA p : p.applicability = MACHINE_APPLICABLE)

\* parts.sort(key=lambda p: p.span.start, reverse=True): the sort is stable,
\* parts with equal starts keep their order.
RECURSIVE SortedDescending(_)
SortedDescending(parts) ==
    IF parts = <<>> THEN <<>>
    ELSE LET front == SortedDescending(SubSeq(parts, 1, Len(parts) - 1))
             last == parts[Len(parts)]
             k == Cardinality({i \in 1..Len(front) :
                                 front[i].span.start >= last.span.start})
         IN  SubSeq(front, 1, k) \o <<last>> \o SubSeq(front, k + 1, Len(front))

SortedAscending(parts) ==
    LET d == SortedDescending(parts) IN [i \in 1..Len(d) |-> d[Len(d) + 1 - i]]

\* The overlap test of apply_fixes, on the sorted parts.
HasOverlap_touching(parts) ==
    \E i \in 1..(Len(parts) - 1) : parts[i + 1].span.end >= parts[i].span.start

HasOverlap(parts) ==
    \E i \in 1..(Len(parts) - 1) : parts[i + 1].span.end > parts[i].span.start

\* result[: part.span.start] + part.replacement + result[part.span.end :]
Splice(text, part) ==
    Slice(text, 0, part.span.start) \o part.replacement
        \o Slice(text, part.span.end, Len(text))

RECURSIVE SpliceAll(_, _)
SpliceAll(text, parts) ==
    IF parts = <<>> THEN text
    ELSE SpliceAll(Splice(text, parts[1]), Tail(parts))

\* The value returned: None, or Some(string).
apply_fixes_ascending(text, diagnostics) ==
    LET parts == auto_fixable_suggestions(diagnostics) IN
    IF parts = <<>> THEN None
    ELSE IF HasOverlap(SortedDescending(parts)) THEN None
    ELSE Some(SpliceAll(text, SortedAscending(parts)))

apply_fixes(text, diagnostics) ==
    LET parts == auto_fixable_suggestions(diagnostics) IN
    IF parts = <<>> THEN None
    ELSE IF HasOverlap(SortedDescending(parts)) THEN None
    ELSE Some(SpliceAll(text, SortedDescending(parts)))

(***************************************************************************)
(* SpecFixes: apply_fixes applied to every string and batch of the model   *)
(***************************************************************************)
SqlStrings == {<<>>, <<"a", "b">>, <<"a", "b", "c">>}

\* Spans within the text: 0 <= start <= end <= len(text).
SpansOf(text) ==
    UNION {{Span(s, e) : e \in s..Len(text)} : s \in 0..Len(text)}

PartsOf(text) ==
    {SubstitutionPart(sp, r, MACHINE_APPLICABLE) :
        sp \in SpansOf(text), r \in {<<>>, <<"x">>}}
    \cup {SubstitutionPart(sp, <<"z">>, a) :
            sp \in SpansOf(text), a \in {MAYBE_INCORRECT, HAS_PLACEHOLDERS}}

InitFixes ==
    /\ cmd = "apply_fixes"
    /\ sql \in SqlStrings
    /\ fixes \in SeqsUpTo(PartsOf(sql), MaxParts)
    /\ fs = None
    /\ procs = <<>>
    /\ adapter = None
    /\ allow_write = FALSE
    /\ limit = None
    /\ db = "duckdb"
    /\ output_format = "json"
    /\ dry_run_only = FALSE
    /\ skip_dry_run = FALSE
    /\ max_gb = None
    /\ max_usd = None
    /\ max_rows = None
    /\ pc = "ready"
    /\ statement = None
    /\ stmt_type = None
    /\ result = None
    /\ estimate = None
    /\ calls = <<>>
    /\ out = <<>>
    /\ log = <<>>
    /\ exit_code = None
    /\ escaped = None

\* result holds Some(what the call returned).
CallApplyFixes ==
    /\ pc = "ready"
    /\ cmd = "apply_fixes"
    /\ pc' = "returned"
    /\ result' = Some(apply_fixes(sql, fixes))
    /\ UNCHANGED <<sql, allow_write, limit, statement, stmt_type, option_vars,
                   cli_vars>>

NextFixes == CallApplyFixes

SpecFixes == InitFixes /\ [][NextFixes]_vars

(***************************************************************************)
(* querylog.py: log_query and cleanup_old_logs in concurrent processes     *)
(***************************************************************************)
\* The processes of one project on one UTC date: each writer calls
\* log_query once; the cleaner calls cleanup_old_logs, or never runs.
Writers == 1..MaxWriters
Cleaner == 0

\* A line of the day's file: the complete JSON entry written by the
\* log_query call of a writer; writer 0 stands for a line that was there
\* before.
Entry(writer) == [writer |-> writer]
PriorEntry == Entry(0)

\* The project's log directory (_log_dir()): dir, whether it exists; old,
\* whether it holds a file older than the retention horizon; today, the
\* lines of today's file (_today_file()), None when the file does not exist.
LogDir(dir, old, today) == [dir |-> dir, old |-> old, today |-> today]

LogDirs ==
    {LogDir(FALSE, FALSE, None)}
    \cup {LogDir(TRUE, o, t) :
            o \in BOOLEAN, t \in {None, Some(<<>>), Some(<<PriorEntry>>)}}

\* Where a process is, and for a writer the end of the file when it opened it.
Proc(at, offset) == [pc |-> at, offset |-> offset]

Lines(dir) == IF dir.today = None THEN <<>> ELSE dir.today[1]

\* A write at the recorded offset, as of a file not opened for appending.
write_at_offset(content, offset, line) ==
    SubSeq(content, 1, offset) \o <<line>> \o SubSeq(content, offset + 2, Len(content))

\* open(log_file, "a") ... f.write(line): the file is opened with O_APPEND,
\* the entry is buffered and flushed by one write when the with block ends,
\* which puts it at the end of the file as it then is.
write_append(content, offset, line) == Append(content, line)

log_frame ==
    <<policy_vars, cmd, db, output_format, dry_run_only, skip_dry_run,
      max_gb, max_usd, max_rows, fixes, adapter, cli_vars>>

InitLog ==
    /\ cmd = "log_query"
    /\ fs \in LogDirs
    /\ procs \in [{Cleaner} \cup Writers -> {Proc("idle", 0), Proc("start", 0)}]
    /\ procs[Cleaner].pc \in {"idle", "start"}
    /\ \A w \in Writers : procs[w].pc = "start"
    /\ adapter = None
    /\ sql = OkText(<<>>)
    /\ allow_write = FALSE
    /\ limit = None
    /\ db = "duckdb"
    /\ output_format = "json"
    /\ dry_run_only = FALSE
    /\ skip_dry_run = FALSE
    /\ max_gb = None
    /\ max_usd = None
    /\ max_rows = None
    /\ fixes = <<>>
    /\ pc = "ready"
    /\ statement = None
    /\ stmt_type = None
    /\ result = None
    /\ estimate = None
    /\ calls = <<>>
    /\ out = <<>>
    /\ log = <<>>
    /\ exit_code = None
    /\ escaped = None

\* log_file.parent.mkdir(parents=True, exist_ok=True)
LogMkdir(w) ==
    /\ procs[w].pc = "start"
    /\ fs' = [fs EXCEPT !.dir = TRUE]
    /\ procs' = [procs EXCEPT ![w] = Proc("open", 0)]
    /\ UNCHANGED log_frame

\* open(log_file, "a"): FileNotFoundError when the directory is gone;
\* otherwise the file is created if it does not exist.
LogOpen(w) ==
    /\ procs[w].pc = "open"
    /\ IF ~fs.dir
       THEN /\ procs' = [procs EXCEPT ![w] = Proc("FileNotFoundError", 0)]
            /\ UNCHANGED fs
       ELSE /\ procs' = [procs EXCEPT ![w] = Proc("write", Len(Lines(fs)))]
            /\ fs' = [fs EXCEPT !.today = Some(Lines(fs))]
    /\ UNCHANGED log_frame

\* f.write(json.dumps(entry, default=str) + "\n") and the end of the with
\* block.
LogWrite(w) ==
    /\ procs[w].pc = "write"
    /\ fs' = [fs EXCEPT !.today =
                 Some(write_append(Lines(fs), procs[w].offset, Entry(w)))]
    /\ procs' = [procs EXCEPT ![w] = Proc("returned", 0)]
    /\ UNCHANGED log_frame

\* cleanup_old_logs: if not log_dir.exists(): return 0
CleanupExists ==
    /\ procs[Cleaner].pc = "start"
    /\ procs' = [procs EXCEPT ![Cleaner] =
                    Proc(IF fs.dir THEN "unlink" ELSE "returned", 0)]
    /\ UNCHANGED <<fs, log_frame>>

\* The loop over log_dir.glob("*.jsonl"): files older than the cutoff are
\* unlinked; today's file never is.
CleanupUnlink ==
    /\ procs[Cleaner].pc = "unlink"
    /\ fs' = [fs EXCEPT !.old = FALSE]
    /\ procs' = [procs EXCEPT ![Cleaner] = Proc("rmdir", 0)]
    /\ UNCHANGED log_frame

\* with contextlib.suppress(OSError): log_dir.rmdir(): removes the directory
\* when it is empty, fails silently otherwise.
CleanupRmdir ==
    /\ procs[Cleaner].pc = "rmdir"
    /\ fs' = IF fs.dir /\ ~fs.old /\ fs.today = None
             THEN [fs EXCEPT !.dir = FALSE]
             ELSE fs
    /\ procs' = [procs EXCEPT ![Cleaner] = Proc("returned", 0)]
    /\ UNCHANGED log_frame

NextLog ==
    \/ \E w \in Writers : LogMkdir(w)
    \/ \E w \in Writers : LogOpen(w)
    \/ \E w \in Writers : LogWrite(w)
    \/ CleanupExists
    \/ CleanupUnlink
    \/ CleanupRmdir

SpecLog == InitLog /\ [][NextLog]_vars

(***************************************************************************)
(* adapters/duckdb.py, postgres.py, bigquery.py: connect and close         *)
(***************************************************************************)
\* An adapter instance: conn is self._conn (self._client for BigQuery), None
\* or Some(handle); open is the set of driver handles it opened that are
\* still open; opened counts the handles it has opened.
Adapter(conn, open, opened) == [conn |-> conn, open |-> open, opened |-> opened]

adapter_frame ==
    <<policy_vars, cmd, db, output_format, dry_run_only, skip_dry_run,
      max_gb, max_usd, max_rows, fixes, fs, procs, estimate, out, log,
      exit_code, escaped>>

\* __init__: self._conn = None
InitAdapter ==
    /\ cmd = "adapter"
    /\ db \in Engines
    /\ adapter = Some(Adapter(None, {}, 0))
    /\ calls = <<>>
    /\ fs = None
    /\ procs = <<>>
    /\ sql = OkText(<<>>)
    /\ allow_write = FALSE
    /\ limit = None
    /\ output_format = "json"
    /\ dry_run_only = FALSE
    /\ skip_dry_run = FALSE
    /\ max_gb = None
    /\ max_usd = None
    /\ max_rows = None
    /\ fixes = <<>>
    /\ pc = "ready"
    /\ statement = None
    /\ stmt_type = None
    /\ result = None
    /\ estimate = None
    /\ out = <<>>
    /\ log = <<>>
    /\ exit_code = None
    /\ escaped = None

\* connect(config): the driver opens a handle and self._conn is bound to
\* it, whatever it held; or the driver fails and AdapterError is raised with
\* self._conn as it was.  A handle self._conn no longer refers to is closed
\* only if and when the runtime finalizes it (finalized), never by the
\* adapter.
AdapterConnect ==
    /\ cmd = "adapter"
    /\ Len(calls) < MaxAdapterCalls
    /\ calls' = Append(calls, "connect")
    /\ LET a == adapter[1] IN
       \E connected \in BOOLEAN, finalized \in BOOLEAN :
          IF ~connected
          THEN UNCHANGED adapter
          ELSE LET handle == a.opened + 1
                   kept == IF finalized THEN a.open \ {a.conn[i] : i \in 1..Len(a.conn)}
                           ELSE a.open
               IN  adapter' = Some(Adapter(Some(handle), kept \cup {handle}, handle))
    /\ UNCHANGED adapter_frame

\* close(): if self._conn is not None: self._conn.close(); self._conn = None
AdapterClose ==
    /\ cmd = "adapter"
    /\ Len(calls) < MaxAdapterCalls
    /\ calls' = Append(calls, "close")
    /\ LET a == adapter[1] IN
          IF a.conn # None
          THEN adapter' = Some(Adapter(None, a.open \ {a.conn[1]}, a.opened))
          ELSE UNCHANGED adapter
    /\ UNCHANGED adapter_frame

NextAdapter == AdapterConnect \/ AdapterClose

SpecAdapter == InitAdapter /\ [][NextAdapter]_vars

(***************************************************************************)
(* policy/tables.py: extract_tables                                        *)
(***************************************************************************)
\* For table extraction a statement is modelled by its exp.Table nodes: the
\* direct target of the root (None for a query root), the table references
\* inside its queries, and the aliases of its CTEs.  A reference has a name,
\* an optional schema (table.db), and cte: whether it refers to a CTE of
\* the statement rather than to a physical table.  A reference inside the
\* body of a CTE named users to the table users is physical.
TableNames == {"a", "b"}
Schemas == {None, Some("s")}
TableRoots == {"Select", "Insert", "Update", "Delete", "Merge", "Create"}

Table(schema, name, cte) == [db |-> schema, name |-> name, cte |-> cte]

TablesOver(ctes) ==
    {Table(s, n, FALSE) : s \in Schemas, n \in TableNames}
    \cup {Table(None, n, TRUE) : n \in ctes}

TableStatement(root, target, ctes, refs) ==
    [root |-> root, target |-> target, ctes |-> ctes, refs |-> refs]

TableStatements ==
    UNION {
      { TableStatement(r, t, c, refs) :
          t \in IF r = "Select" THEN {None}
                ELSE {Some(Table(s, n, FALSE)) : s \in Schemas, n \in TableNames},
          refs \in {x \in SUBSET TablesOver(c) : Cardinality(x) <= MaxRefs} }
      : r \in TableRoots, c \in SUBSET TableNames }

\* _qualified_name: "schema.table", or "table" without a schema.
qualified_name(table) == [db |-> table.db, name |-> table.name]

\* The order of the strings: "a" < "b" < "s.a" < "s.b".
NameRank(q) ==
    (IF q.db = None THEN 0 ELSE 2) + (IF q.name = "a" THEN 0 ELSE 1)

\* sorted(names) of a set of strings
RECURSIVE sorted(_)
sorted(names) ==
    IF names = {} THEN <<>>
    ELSE LET least == CHOOSE q \in names : \A p \in names : NameRank(q) <= NameRank(p)
         IN  <<least>> \o sorted(names \ {least})

TargetOf(stmt) == {stmt.target[i] : i \in 1..Len(stmt.target)}

\* _walk_tables: every exp.Table node of the tree
walk_tables(stmt) ==
    sorted({qualified_name(t) : t \in TargetOf(stmt) \cup stmt.refs})

\* The passes of extract_tables over the scopes.  in_scope: whether the
\* scopes sqlglot built list the root's target among their tables.
scoped_tables(stmt, in_scope, pass3_roots) ==
    LET cte_names == stmt.ctes
        scope_tables == stmt.refs \cup (IF in_scope THEN TargetOf(stmt) ELSE {})
        pass2 == {qualified_name(t) : t \in {x \in scope_tables : x.name \notin cte_names}}
        pass3 == IF stmt.root \in pass3_roots
                 THEN {qualified_name(t) : t \in {x \in TargetOf(stmt) : x.name \notin cte_names}}
                 ELSE {}
    IN  sorted(pass2 \cup pass3)

\* What traverse_scope(statement) can do: raise, return no scope, or return
\* the scopes of the statement's queries.  A query root always has scopes.
ScopeOutcomes(stmt) ==
    IF stmt.root = "Select" THEN {"scopes"} ELSE {"raised", "empty", "scopes"}

extract_tables(stmt, scan, in_scope) ==
    IF scan \in {"raised", "empty"} THEN walk_tables(stmt)
    ELSE scoped_tables(stmt, in_scope, {"Insert", "Delete", "Update"})

tables_frame ==
    <<sql, allow_write, limit, stmt_type, option_vars, cli_vars>>

InitTables ==
    /\ cmd = "extract_tables"
    /\ statement \in {Some(s) : s \in TableStatements}
    /\ fs = None
    /\ procs = <<>>
    /\ adapter = None
    /\ sql = OkText(<<>>)
    /\ allow_write = FALSE
    /\ limit = None
    /\ db = "duckdb"
    /\ output_format = "json"
    /\ dry_run_only = FALSE
    /\ skip_dry_run = FALSE
    /\ max_gb = None
    /\ max_usd = None
    /\ max_rows = None
    /\ fixes = <<>>
    /\ pc = "ready"
    /\ stmt_type = None
    /\ result = None
    /\ estimate = None
    /\ calls = <<>>
    /\ out = <<>>
    /\ log = <<>>
    /\ exit_code = None
    /\ escaped = None

\* result holds Some(the list returned); pc records what traverse_scope did.
CallExtractTables ==
    /\ pc = "ready"
    /\ cmd = "extract_tables"
    /\ \E scan \in ScopeOutcomes(statement[1]), in_scope \in BOOLEAN :
          /\ pc' = scan
          /\ result' = Some(extract_tables(statement[1], scan, in_scope))
    /\ UNCHANGED <<statement, tables_frame>>

NextTables == CallExtractTables

SpecTables == InitTables /\ [][NextTables]_vars

(***************************************************************************)
(* Properties of the policy pipeline                                       *)
(***************************************************************************)
Codes(r) == {r.diagnostics[i].code : i \in 1..Len(r.diagnostics)}
ErrorCodes(r) ==
    {r.diagnostics[i].code : i \in {j \in 1..Len(r.diagnostics) :
                                        r.diagnostics[j].level = ERROR}}
NonEmptyChunks(text) ==
    {i \in 1..Len(text.chunks) : text.chunks[i] # NoStatement}

\* C1: whenever run_policy returns, the result is blocked if and only if its
\* diagnostics hold at least one diagnostic of level Error; Info diagnostics
\* alone never block.
C1_BlockedIffError ==
    result # None => (result[1].blocked <=> ErrorCodes(result[1]) # {})

C1_Witness ==
    /\ result # None
    /\ result[1].diagnostics # <<>>
    /\ ErrorCodes(result[1]) = {}
    /\ ~result[1].blocked

\* C2: a text that parses into more than one non-empty statement is returned
\* blocked with Q0202 among its codes, whatever allow_write and limit are; a
\* single statement followed only by empty chunks (trailing semicolons) gets
\* no Q0202.
C2_MultipleStatementsBlocked ==
    pc # "ready" =>
        /\ (sql.kind = "ok" /\ Cardinality(NonEmptyChunks(sql)) > 1) =>
               /\ result # None
               /\ result[1].blocked
               /\ MULTIPLE_STATEMENTS \in Codes(result[1])
        /\ (sql.kind = "ok" /\ NonEmptyChunks(sql) = {1}) =>
               /\ result # None
               /\ MULTIPLE_STATEMENTS \notin Codes(result[1])

C2_Witness ==
    /\ pc = "returned"
    /\ sql.kind = "ok"
    /\ Cardinality(NonEmptyChunks(sql)) > 1
    /\ allow_write
    /\ limit = None
    /\ MULTIPLE_STATEMENTS \in Codes(result[1])

\* C3 (as claimed): every statement classified ADMIN is returned blocked with
\* an ADMIN_BLOCKED (Q0303) Error diagnostic, with allow_write false and true.
C3_AdminAlwaysBlocked ==
    stmt_type = Some(ADMIN) =>
        /\ result[1].blocked
        /\ ADMIN_BLOCKED \in ErrorCodes(result[1])

\* C4: a statement classified DML gets Q0301 and is blocked when allow_write
\* is false, one classified DDL gets Q0302 and is blocked when allow_write is
\* false; neither code is emitted when allow_write is true, nor for a
\* statement classified READ.
C4_WriteAccessControl ==
    pc = "returned" =>
        /\ (stmt_type = Some(DML) /\ ~allow_write) =>
               (WRITE_BLOCKED \in Codes(result[1]) /\ result[1].blocked)
        /\ (stmt_type = Some(DDL) /\ ~allow_write) =>
               (DDL_BLOCKED \in Codes(result[1]) /\ result[1].blocked)
        /\ (allow_write \/ stmt_type = Some(READ)) =>
               Codes(result[1]) \cap {WRITE_BLOCKED, DDL_BLOCKED} = {}

C4_Witness ==
    /\ pc = "returned"
    /\ stmt_type = Some(DDL)
    /\ ~allow_write
    /\ DDL_BLOCKED \in Codes(result[1])
    /\ result[1].blocked

\* C5 (as claimed): every statement classified UNKNOWN is returned blocked
\* with an Error diagnostic of the access band Q03xx, whatever allow_write is.
C5_UnknownBlocked ==
    stmt_type = Some(UNKNOWN) =>
        /\ result[1].blocked
        /\ \E c \in ErrorCodes(result[1]) : c \in AccessBand

\* C6 (as claimed): a statement in which any CTE body is an insert, update,
\* delete or merge is classified DML, whatever the kind of its root.
C6_WritableCteAnyRoot ==
    (stmt_type # None /\ statement[1].ctes \cap DML_TYPES # {}) =>
        stmt_type = Some(DML)

\* C6 (amended): under a read root (select, union, intersect, except) or a
\* DML root, a statement in which any CTE body is an insert, update, delete
\* or merge is classified DML; under a DDL root it is DDL, under a grant,
\* copy or command root ADMIN, under any other root UNKNOWN.
C6_WritableCteReadRoot ==
    (stmt_type # None /\ statement[1].ctes \cap DML_TYPES # {}) =>
        LET root == statement[1].root IN
        stmt_type = Some(IF root \in READ_TYPES \cup DML_TYPES THEN DML
                         ELSE IF root \in DDL_TYPES THEN DDL
                         ELSE IF root \in BLOCKED_TYPES THEN ADMIN
                         ELSE UNKNOWN)

C6_Witness ==
    /\ stmt_type = Some(DML)
    /\ statement[1].root = "Union"
    /\ statement[1].ctes = {"Select", "Merge"}

\* C7 (as claimed): with allow_write true, a DELETE root with no WHERE of
\* its own gets Q0201 and is blocked, an UPDATE root with no WHERE of its own
\* gets Q0203 and is blocked (a WHERE only in a nested query does not
\* count), and neither code is emitted when the root carries its own WHERE.
C7_WriteWithoutOwnWhere ==
    (pc = "returned" /\ statement # None /\ allow_write) =>
        LET s == statement[1]
            r == result[1]
        IN  /\ (s.root = "Delete" /\ s.where # "root") =>
                   (DELETE_WITHOUT_WHERE \in Codes(r) /\ r.blocked)
            /\ (s.root = "Update" /\ s.where # "root") =>
                   (UPDATE_WITHOUT_WHERE \in Codes(r) /\ r.blocked)
            /\ (s.where = "root") =>
                   Codes(r) \cap {DELETE_WITHOUT_WHERE, UPDATE_WITHOUT_WHERE} = {}

(***************************************************************************)
(* Properties of the query and exec commands                               *)
(***************************************************************************)
\* What run_policy makes of the invocation's text and options.
PolicyOutcome ==
    run_policy(sql, IF cmd = "exec" THEN TRUE ELSE allow_write,
               effective_limit(limit))

\* The command got as far as its call of run_policy.
PolicyCalled == result # None \/ escaped \in {Some("TypeError"), Some("TokenError")}

Decisions == {out[i].decision : i \in 1..Len(out)}

\* The codes of the access band left for DANGEROUS_FUNCTION (Q03xx): those
\* that are not the write, DDL and admin codes.
DangerousFunctionCodes ==
    AccessBand \ {WRITE_BLOCKED, DDL_BLOCKED, ADMIN_BLOCKED}

\* C8 (as claimed): when query or exec runs the pipeline on a statement that
\* calls a function whose lower-cased name is in the blocklist of the
\* engine's adapter, the pipeline returns a result that is blocked and holds a
\* DANGEROUS_FUNCTION Error diagnostic; with an empty blocklist no such
\* diagnostic is emitted.
C8_DangerousFunctionBlocked ==
    (cmd \in {"query", "exec"} /\ db \in Engines /\ PolicyCalled
     /\ PolicyOutcome.statement # None) =>
        LET stmt == PolicyOutcome.statement[1] IN
        /\ check_dangerous_functions(stmt, dangerous_functions(db)) =>
               /\ result # None
               /\ result[1].blocked
               /\ ErrorCodes(result[1]) \cap DangerousFunctionCodes # {}
        /\ (dangerous_functions(db) = {} /\ result # None) =>
               Codes(result[1]) \cap DangerousFunctionCodes = {}

\* C9 (as claimed): through query, a statement classified DML or DDL that has
\* no blocking diagnostic ends with decision ask and exit code 0, and
\* adapter.execute is never called for it.
C9_QueryWriteAsks ==
    (cmd = "query" /\ PolicyOutcome.stmt_type \in {Some(DML), Some(DDL)}
     /\ ~PolicyOutcome.result[1].blocked) =>
        /\ "execute" \notin {calls[i] : i \in 1..Len(calls)}
        /\ (pc = "exited" /\ PolicyCalled) =>
               /\ Some("ask") \in Decisions
               /\ exit_code = Some(0)

\* C10 (as claimed): through exec, a statement classified READ is rejected
\* with decision deny and exit code 1, and no adapter operation (connect,
\* dry_run, execute) is called for it.
C10_ExecRejectsRead ==
    (cmd = "exec" /\ PolicyOutcome.stmt_type = Some(READ)) =>
        /\ calls = <<>>
        /\ (pc = "exited" /\ PolicyCalled) =>
               /\ Some("deny") \in Decisions
               /\ exit_code = Some(1)

\* How a finished invocation ended, read off what it left behind: the
\* exception that escaped, the documents written and the log entry.
Outcome ==
    IF pc # "exited" THEN "running"
    ELSE IF escaped # None THEN "crash"
    ELSE IF \E i \in 1..Len(out) : out[i].kind = "aborted" THEN "cancelled"
    ELSE IF \E i \in 1..Len(out) : out[i].kind = "usage" THEN "usage_error"
    ELSE IF \E i \in 1..Len(out) : out[i].kind = "error" THEN "adapter_error"
    ELSE IF \E i \in 1..Len(out) : out[i].kind = "rejected" THEN "rejected_read"
    ELSE IF cmd = "validate"
         THEN IF result[1].blocked THEN "policy_block" ELSE "passed"
    ELSE IF log[1] = LogEntry(TRUE, TRUE)
         THEN IF calls = <<>> THEN "policy_block" ELSE "cost_deny"
    ELSE IF log[1] = LogEntry(FALSE, TRUE) THEN "dry_run_only"
    ELSE "executed"

Called(operation) == operation \in {calls[i] : i \in 1..Len(calls)}

\* adapter.dry_run has returned, and returned None.
DryRunReturnedNone ==
    /\ Called("dry_run")
    /\ pc # "dry_run"
    /\ estimate = None
    /\ ~(Outcome \in {"adapter_error", "cancelled"} /\ ~Called("execute"))

HasCostThresholds == max_gb # None \/ max_usd # None \/ max_rows # None

Breach(threshold, field) ==
    threshold # None /\ field # None /\ field[1] > threshold[1]

BreachGb == Breach(max_gb, estimate[1].estimated_gb)
BreachUsd == Breach(max_usd, estimate[1].estimated_cost_usd)
BreachRows == Breach(max_rows, estimate[1].estimated_rows)

\* C12: check_cost_threshold returns a Q0401 Error about the first dimension
\* that breaches, in the order GB, USD, rows; a dimension whose threshold or
\* estimate field is absent never breaches and leaves the others as they
\* are; it returns None exactly when no dimension breaches.
C12_FirstBreachWins ==
    (cmd = "check_cost_threshold" /\ pc = "returned") =>
        LET r == result[1] IN
        /\ r.raised = "none"
        /\ (r.diag # <<>>) <=> (BreachGb \/ BreachUsd \/ BreachRows)
        /\ r.diag # <<>> => r.diag = <<DiagError(COST_OVER_THRESHOLD)>>
        /\ (r.about = "gb") <=> BreachGb
        /\ (r.about = "usd") <=> (~BreachGb /\ BreachUsd)
        /\ (r.about = "rows") <=> (~BreachGb /\ ~BreachUsd /\ BreachRows)

C12_Witness ==
    /\ cmd = "check_cost_threshold"
    /\ pc = "returned"
    /\ max_gb # None
    /\ estimate[1].estimated_gb = None
    /\ BreachUsd
    /\ BreachRows
    /\ result[1].about = "usd"

(***************************************************************************)
(* Properties of apply_fixes                                               *)
(***************************************************************************)
FixesReturned == cmd = "apply_fixes" /\ pc = "returned"

\* What apply_fixes returned: None or Some(string).
Healed == result[1]

MachineApplicableParts == auto_fixable_suggestions(fixes)

\* Two half-open spans share at least one position of the text.
Overlaps(p, q) == p.span.start < q.span.end /\ q.span.start < p.span.end

SomeOverlap(parts) ==
    \E i, j \in 1..Len(parts) : i # j /\ Overlaps(parts[i], parts[j])

\* Part j cannot be applied together with part i: it starts strictly inside
\* the span of part i, or it starts where part i starts, comes later in the
\* batch and is not empty.
Clash(parts, i, j) ==
    /\ i # j
    /\ \/ /\ parts[i].span.start < parts[j].span.start
          /\ parts[j].span.start < parts[i].span.end
       \/ /\ i < j
          /\ parts[i].span.start = parts[j].span.start
          /\ parts[j].span.end > parts[j].span.start

SomeClash(parts) == \E i, j \in 1..Len(parts) : Clash(parts, i, j)

\* C13 (as claimed): every batch of MachineApplicable parts whose spans are
\* pairwise non-overlapping makes apply_fixes return a string, and every
\* batch in which two MachineApplicable parts overlap makes it return None.
C13_NonOverlappingYieldsString ==
    FixesReturned =>
        /\ ~SomeOverlap(MachineApplicableParts) => Healed # None
        /\ SomeOverlap(MachineApplicableParts) => Healed = None

\* C13 (amended): apply_fixes returns None exactly when the batch has no
\* MachineApplicable part, or one MachineApplicable part starts strictly
\* inside another one's span, or a non-empty MachineApplicable part follows,
\* in the batch, another one with the same start; it returns a string for
\* every other batch, and every batch with two overlapping parts is rejected.
C13_RejectsExactlyClashes ==
    FixesReturned =>
        /\ Healed = None <=>
              (MachineApplicableParts = <<>> \/ SomeClash(MachineApplicableParts))
        /\ SomeOverlap(MachineApplicableParts) => Healed = None

\* Two MachineApplicable parts that touch without overlapping were applied.
C13_Witness ==
    /\ FixesReturned
    /\ Len(MachineApplicableParts) = 2
    /\ MachineApplicableParts[1].span.end = MachineApplicableParts[2].span.start
    /\ MachineApplicableParts[1].span.start < MachineApplicableParts[1].span.end
    /\ Healed # None

\* The orders in which the parts can be laid out from left to right over the
\* text: every part starts at or after the end of the one before it.
Arrangements(parts) ==
    {q \in [1..Len(parts) -> 1..Len(parts)] :
        /\ \A i, j \in 1..Len(parts) : i # j => q[i] # q[j]
        /\ \A i \in 1..(Len(parts) - 1) :
              parts[q[i]].span.end <= parts[q[i + 1]].span.start}

\* The text from offset cursor on, with the span of each part of the layout
\* replaced by its replacement and everything between the spans kept.
RECURSIVE Replaced(_, _, _, _)
Replaced(text, parts, q, cursor) ==
    IF q = <<>> THEN Slice(text, cursor, Len(text))
    ELSE Slice(text, cursor, parts[q[1]].span.start)
            \o parts[q[1]].replacement
            \o Replaced(text, parts, Tail(q), parts[q[1]].span.end)

\* C14: whenever apply_fixes returns a string, it is the original SQL with
\* the span of every MachineApplicable part replaced by its replacement and
\* everything outside those spans kept in order (all parts applied, never a
\* subset), and the parts that are not MachineApplicable have no influence
\* on what is returned.
C14_AllPartsReplaced ==
    FixesReturned =>
        /\ Healed # None =>
              \E q \in Arrangements(MachineApplicableParts) :
                  Healed[1] = Replaced(sql, MachineApplicableParts,
                                       [i \in 1..Len(q) |-> q[i]], 0)
        /\ Healed = apply_fixes(sql, MachineApplicableParts)

\* A string came back for two MachineApplicable parts whose replacements
\* change the length of the text.
C14_Witness ==
    /\ FixesReturned
    /\ Healed # None
    /\ Len(MachineApplicableParts) = 2
    /\ \A i \in 1..2 :
          Len(MachineApplicableParts[i].replacement)
              # MachineApplicableParts[i].span.end
                  - MachineApplicableParts[i].span.start

(***************************************************************************)
(* Properties of the enrichment step                                       *)
(***************************************************************************)
\* run_policy returned for a statement it classified READ, with a limit
\* configured and nothing blocking.
UnblockedReadWithLimit ==
    /\ pc = "returned"
    /\ cmd = "run_policy"
    /\ stmt_type = Some(READ)
    /\ limit # None
    /\ ~result[1].blocked

\* The text of a single statement has a LIMIT on its root.
RootLimited(text) ==
    text.kind = "ok" /\ Len(text.chunks) = 1 /\ text.chunks[1].limit = "root"

\* C15 (as claimed): every READ statement whose root has no LIMIT and no
\* GROUP BY, run with a limit and not blocked, gets Q0601 and a LIMIT on the
\* root of effective_sql, whatever the kind of the read root.
C15_UnboundedReadGetsLimit ==
    (/\ UnblockedReadWithLimit
     /\ statement[1].limit # "root"
     /\ statement[1].group # "root") =>
        /\ LIMIT_INJECTED \in Codes(result[1])
        /\ RootLimited(effective_sql(result[1]))

\* run_policy returned having injected a LIMIT.
LimitInjected ==
    /\ pc = "returned"
    /\ cmd = "run_policy"
    /\ LIMIT_INJECTED \in Codes(result[1])

\* run_policy called again on the effective SQL of the result, same options.
RunAgain == run_policy(effective_sql(result[1]), allow_write, limit)

Classified == cmd = "run_policy" /\ stmt_type # None

HasWritableCte(stmt) == stmt.ctes \cap DML_TYPES # {}

\* C17 (as claimed): a statement with a read root and no DML CTE body is DDL
\* exactly when the root itself carries an INTO target and READ otherwise; a
\* writable CTE wins over INTO, and the grant/copy/command rule over both.
C17_IntoOnRootIffDdl ==
    Classified =>
        LET stmt == statement[1] IN
        /\ (stmt.root \in READ_TYPES /\ ~HasWritableCte(stmt)) =>
              stmt_type = Some(IF stmt.into = "root" THEN DDL ELSE READ)
        /\ (stmt.root \in READ_TYPES /\ HasWritableCte(stmt)) =>
              stmt_type = Some(DML)
        /\ stmt.root \in BLOCKED_TYPES => stmt_type = Some(ADMIN)

\* C17 (amended): a statement with a read root and no DML CTE body is DDL
\* exactly when the root is a plain select and an INTO target occurs anywhere
\* in its tree, on the root or below it, and READ otherwise; a writable CTE
\* wins over INTO, and the grant/copy/command rule over both.
C17_IntoInSelectTreeIffDdl ==
    Classified =>
        LET stmt == statement[1] IN
        /\ (stmt.root \in READ_TYPES /\ ~HasWritableCte(stmt)) =>
              stmt_type = Some(IF stmt.root = "Select" /\ stmt.into # "none"
                               THEN DDL ELSE READ)
        /\ (stmt.root \in READ_TYPES /\ HasWritableCte(stmt)) =>
              stmt_type = Some(DML)
        /\ stmt.root \in BLOCKED_TYPES => stmt_type = Some(ADMIN)

\* A plain select whose only INTO is below the root was classified DDL.
C17_Witness ==
    /\ Classified
    /\ statement[1].root = "Select"
    /\ statement[1].into = "nested"
    /\ ~HasWritableCte(statement[1])
    /\ stmt_type = Some(DDL)

(***************************************************************************)
(* Properties of the exit code and the output of the commands              *)
(***************************************************************************)
\* A finished invocation of a command on a well-formed --db.
Finished == cmd \in {"validate", "query", "exec"} /\ pc = "exited" /\ db \in Engines

\* The invocation ended in the verdict allow or ask / in the verdict deny.
DecisionAllowOrAsk == Outcome \in {"passed", "dry_run_only", "executed"}
DecisionDeny == Outcome \in {"policy_block", "cost_deny", "rejected_read"}

\* An AdapterError was raised during the invocation.
AdapterErrorOccurred == Outcome = "adapter_error" \/ escaped = Some("AdapterError")

\* C18 (as claimed): for every validate, query and exec invocation the exit
\* code is 0 exactly when the decision is allow or ask, and 1 exactly when
\* the decision is deny or an adapter error occurred.
C18_ExitCodeFollowsDecision ==
    Finished =>
        /\ exit_code = Some(0) <=> DecisionAllowOrAsk
        /\ exit_code = Some(1) <=> (DecisionDeny \/ AdapterErrorOccurred)

\* The document the claim describes for an adapter error: the verdict deny
\* with the error message.
IsDenyErrorDoc(d) == d.kind = "error" /\ d.decision = Some("deny")

\* C19 (as claimed): an AdapterError raised during a query or exec
\* invocation, by the adapter lookup, connect, dry_run or execute, is
\* recovered at the boundary: the invocation ends with exit code 1 and the
\* verdict deny with the error message, and no exception escapes.
C19_AdapterErrorRecovered ==
    (cmd \in {"query", "exec"} /\ pc = "exited" /\ AdapterErrorOccurred) =>
        /\ escaped = None
        /\ exit_code = Some(1)
        /\ output_format = "json" =>
              \E i \in 1..Len(out) : IsDenyErrorDoc(out[i])

\* The invocation ended on one of the paths that write a verdict.
OnVerdictPath ==
    Outcome \in {"policy_block", "cost_deny", "dry_run_only", "executed",
                 "rejected_read", "adapter_error"}

\* C20 (as claimed): every query or exec invocation writes exactly one
\* output document on every path (policy block, cost-gate deny, dry-run only,
\* executed, rejected read, adapter error), and with --format json that
\* document is JSON and has a decision key whose value is allow, ask or deny.
C20_OneDocumentWithDecision ==
    (cmd \in {"query", "exec"} /\ OnVerdictPath) =>
        /\ Len(out) = 1
        /\ output_format = "json" =>
              /\ out[1].format = "json"
              /\ out[1].decision \in {Some("allow"), Some("ask"), Some("deny")}

(***************************************************************************)
(* Properties of the query log                                             *)
(***************************************************************************)
\* C21 (as claimed): every query or exec invocation that ends with a
\* decision has appended exactly one entry to the query log, never zero and
\* never two, whether it was denied by policy, denied by the cost gate,
\* rejected as a read, denied because of an adapter error, or allowed.
C21_OneLogEntryPerDecision ==
    /\ cmd \in {"query", "exec"} => Len(log) <= 1
    /\ (cmd \in {"query", "exec"} /\ OnVerdictPath) => Len(log) = 1

\* The lines of today's file before and after a step of the processes.
KeepsLinesAndAppendsOne ==
    \/ Lines(fs') = Lines(fs)
    \/ \E w \in Writers :
          /\ procs[w].pc = "write"
          /\ procs'[w].pc = "returned"
          /\ Lines(fs') = Append(Lines(fs), Entry(w))

EntriesOf(w) == {i \in 1..Len(Lines(fs)) : Lines(fs)[i] = Entry(w)}

\* Only log_query calls run: no cleanup_old_logs in the project.
OnlyWriters == cmd = "log_query" /\ procs[Cleaner].pc = "idle"

\* C22: for any interleaving of the log_query calls of N concurrent
\* processes on one UTC date, every step leaves the lines already in the
\* day's file unchanged and in place and adds at most one complete entry at
\* the end, and the file holds exactly one entry of each call that returned:
\* after the N calls, the lines it held before followed by N new entries.
C22_ConcurrentAppendsKeepLines ==
    /\ [][OnlyWriters => KeepsLinesAndAppendsOne]_vars
    /\ [](OnlyWriters =>
            \A w \in Writers :
                /\ procs[w].pc \in {"start", "open", "write", "returned"}
                /\ Cardinality(EntriesOf(w))
                      = IF procs[w].pc = "returned" THEN 1 ELSE 0)

\* Every writer has returned, and the file had a line in it before.
C22_Witness ==
    /\ OnlyWriters
    /\ \A w \in Writers : procs[w].pc = "returned"
    /\ Lines(fs)[1] = PriorEntry
    /\ Len(Lines(fs)) = 1 + MaxWriters

(***************************************************************************)
(* Properties of the adapters                                              *)
(***************************************************************************)
\* The handle the instance holds, as a set.
Held == {adapter[1].conn[i] : i \in 1..Len(adapter[1].conn)}

LastCall == calls[Len(calls)]

\* C23 (as claimed): after any sequence of connect and close calls on one
\* adapter instance, at most one driver handle it opened is open (the one it
\* holds), and none is open after close; a second connect or a second close
\* in a row leaves the engine resources as the first one did.
C23_OneHandlePerInstance ==
    cmd = "adapter" =>
        /\ Cardinality(adapter[1].open) <= 1
        /\ adapter[1].open \subseteq Held
        /\ (calls # <<>> /\ LastCall = "close") => adapter[1].open = {}

(***************************************************************************)
(* Properties of extract_tables                                            *)
(***************************************************************************)
TablesReturned == cmd = "extract_tables" /\ result # None

\* The names of the physical tables the statement references, the direct
\* target of a DML root included.
PhysicalTables(stmt) ==
    {qualified_name(t) : t \in {x \in stmt.refs : ~x.cte}}
    \cup (IF stmt.root \in DML_TYPES
          THEN {qualified_name(t) : t \in TargetOf(stmt)} ELSE {})

\* The names that are CTE aliases of the statement and nothing else.
OnlyCteAliases(stmt) ==
    {[db |-> None, name |-> n] : n \in stmt.ctes}
        \ {qualified_name(t) : t \in TargetOf(stmt) \cup {x \in stmt.refs : ~x.cte}}

Listed(list) == {list[i] : i \in 1..Len(list)}

\* C24 (as claimed): extract_tables returns a sorted list without
\* duplicates that holds every physical table the statement references,
\* the direct target of a root insert, update, delete or merge included, and
\* no name that is only a CTE alias.
C24_TablesSortedAndComplete ==
    TablesReturned =>
        LET list == result[1]
            stmt == statement[1]
        IN  /\ \A i, j \in 1..Len(list) :
                  i < j => NameRank(list[i]) < NameRank(list[j])
            /\ PhysicalTables(stmt) \subseteq Listed(list)
            /\ Listed(list) \cap OnlyCteAliases(stmt) = {}

(***************************************************************************)
(* Properties of the order of the adapter operations                       *)
(***************************************************************************)
IndexOf(operation) == CHOOSE i \in 1..Len(calls) : calls[i] = operation

\* The cost gate returned a diagnostic for the dry-run of this invocation.
CostGateDenied == Outcome = "cost_deny"

\* C25: in every query or exec invocation no adapter operation is called
\* when the policy result is blocked; execute is never called after the cost
\* gate returned a diagnostic or when dry_run_only is set; and a dry-run that
\* is performed has completed before execute is called.
C25_AdapterCallsRespectVerdict ==
    cmd \in {"query", "exec"} =>
        /\ (result # None /\ result[1].blocked) => calls = <<>>
        /\ CostGateDenied => ~Called("execute")
        /\ dry_run_only => ~Called("execute")
        /\ (Called("dry_run") /\ Called("execute")) =>
              /\ IndexOf("dry_run") < IndexOf("execute")
              /\ pc # "dry_run"
        /\ pc = "dry_run" => ~Called("execute")

\* An invocation went through dry_run and then execute.
C25_Witness ==
    /\ cmd \in {"query", "exec"}
    /\ pc = "exited"
    /\ Called("dry_run")
    /\ Called("execute")
    /\ HasCostThresholds
    /\ estimate # None

CountOf(operation) == Cardinality({i \in 1..Len(calls) : calls[i] = operation})

\* adapter.connect returned: the command went on to the next operation.
ConnectReturned == Called("dry_run") \/ Called("execute")

\* C26: on every path of a query or exec invocation on which connect
\* returned, close has been called exactly once when the invocation returns,
\* whether it ends with rows, with the dry-run only, with a cost denial,
\* with an AdapterError or an exception out of dry_run or execute, or is
\* cancelled; and no adapter operation is called after close.
C26_ClosedExactlyOnce ==
    cmd \in {"query", "exec"} =>
        /\ (pc = "exited" /\ ConnectReturned) => CountOf("close") = 1
        /\ Called("close") => (ConnectReturned /\ calls[Len(calls)] = "close")
        /\ CountOf("close") <= 1

\* The invocation was cancelled while awaiting execute, after a dry-run.
C26_Witness ==
    /\ cmd \in {"query", "exec"}
    /\ Outcome = "cancelled"
    /\ calls = <<"connect", "dry_run", "execute", "close">>

\* C27 (as claimed): for a text that parses as a single statement, the
\* diagnostics run_policy returns are, in this order, the access-check
\* diagnostic, the delete/update-without-where diagnostic (Q0201/Q0203), the
\* cross-join diagnostic (Q0204), the constant-condition diagnostic (Q0205)
\* and the limit note (Q0601), each check whose condition holds contributing
\* its diagnostic.  No function is configured as dangerous in these runs.
LimitNotes(diagnostics) ==
    SelectSeq(diagnostics, LAMBDA d : d.code = LIMIT_INJECTED)

C27_EveryCheckContributesInOrder ==
    (cmd = "run_policy" /\ pc = "returned" /\ statement # None) =>
        LET stmt == statement[1]
            diagnostics == result[1].diagnostics
        IN  diagnostics =
                access_control(stmt_type[1], allow_write)
                \o check_delete_without_where(stmt)
                \o check_update_without_where(stmt)
                \o check_cross_join_no_condition(stmt)
                \o check_constant_condition(stmt)
                \o LimitNotes(diagnostics)

C29_LogQuerySurvivesCleanup ==
    cmd = "log_query" =>
        \A w \in Writers :
            /\ procs[w].pc # "FileNotFoundError"
            /\ procs[w].pc = "open" => fs.dir
            /\ procs[w].pc = "returned" => Cardinality(EntriesOf(w)) = 1

(***************************************************************************)
(* Properties of apply_fixes under reordering                              *)
(***************************************************************************)
\* The orders in which the same parts can be listed.
Orders(n) ==
    {p \in [1..n -> 1..n] : \A i, j \in 1..n : i # j => p[i] # p[j]}

\* C30 (as claimed): what apply_fixes returns (a string, or None) depends
\* only on the set of MachineApplicable parts and not on the order in which
\* they are listed, also when two parts start at the same offset (an
\* insertion at the start of another part's span, or two insertions at one
\* offset): every reordering of the batch gives the same outcome.
C30_OutcomeIndependentOfOrder ==
    FixesReturned =>
        \A p \in Orders(Len(fixes)) :
            apply_fixes(sql, [i \in 1..Len(fixes) |-> fixes[p[i]]]) = Healed

====
